---- MODULE Spec2Model ----
(***************************************************************************)
(* A model of ping.js, the browser visit probe: the URL list reader, the   *)
(* success classifier, the login sub-flow, the per-URL retry loop of run() *)
(* and the report writer.                                                  *)
(*                                                                         *)
(* Text is modelled as a sequence of one-character strings, so that        *)
(* trim, split, includes, startsWith and endsWith are computed as the      *)
(* JavaScript string methods compute them.  Longer string literals that    *)
(* the program only ever concatenates (message prefixes, summary lines)    *)
(* are kept as single elements of such a sequence.                         *)
(***************************************************************************)
EXTENDS Integers, Sequences, FiniteSets, TLC

----------------------------------------------------------------------------
(* Settings (ping.js 24-33) *)

MAX_RETRIES == 4

(* JITTER_MS = [1200, 4000], ping.js 32 *)
JITTER_MS == <<1200, 4000>>

(* backoffMs, ping.js 39: the base delay and the width of its jitter *)
BACKOFF_BASE_MS == 1000

BACKOFF_JITTER_MS == 500

DOM_MIN_BODY == 1200

TITLE_SLICE == 60

(* Bound of the model: the number of data lines of urls.csv *)
MaxDataLines == 2

(* The grain of Math.random(): its values are the multiples of 1 / RandomDen
   below 1 *)
RandomDen == 4096

(* The greatest attempt number backoffMs is called with on its own *)
MaxAttempt == 8

----------------------------------------------------------------------------
(* String helpers: the JavaScript string methods the program uses *)

Min(a, b) == IF a < b THEN a ELSE b

Whitespace == {" ", "\t", "\r", "\n"}

(* String.prototype.startsWith *)
StartsWith(s, p) == Len(p) <= Len(s) /\ SubSeq(s, 1, Len(p)) = p

(* String.prototype.endsWith *)
EndsWith(s, p) == Len(p) <= Len(s) /\ SubSeq(s, Len(s) - Len(p) + 1, Len(s)) = p

(* String.prototype.includes *)
Includes(s, p) == \E i \in 1..(Len(s) - Len(p) + 1) : SubSeq(s, i, i + Len(p) - 1) = p

(* String.prototype.indexOf, 1-based; 0 when absent *)
RECURSIVE IndexFrom(_, _, _)
IndexFrom(s, p, i) ==
  IF i + Len(p) - 1 > Len(s) THEN 0
  ELSE IF SubSeq(s, i, i + Len(p) - 1) = p THEN i
       ELSE IndexFrom(s, p, i + 1)

IndexOf(s, p) == IndexFrom(s, p, 1)

RECURSIVE TrimStart(_)
TrimStart(s) == IF s # <<>> /\ Head(s) \in Whitespace THEN TrimStart(Tail(s)) ELSE s

RECURSIVE TrimEnd(_)
TrimEnd(s) ==
  IF s # <<>> /\ s[Len(s)] \in Whitespace THEN TrimEnd(SubSeq(s, 1, Len(s) - 1)) ELSE s

(* String.prototype.trim *)
Trim(s) == TrimEnd(TrimStart(s))

(* String.prototype.toLowerCase, on the letters of the model's alphabet *)
LowerChar(c) ==
  CASE c = "U" -> "u"
    [] c = "R" -> "r"
    [] c = "L" -> "l"
    [] c = "A" -> "a"
    [] c = "W" -> "w"
    [] OTHER -> c

ToLowerCase(s) == [i \in 1..Len(s) |-> LowerChar(s[i])]

(* String.prototype.slice(0, n) *)
Slice0(s, n) == SubSeq(s, 1, Min(n, Len(s)))

(* csvText.split(/\r?\n/): cut at every "\n", dropping a "\r" right before it *)
RECURSIVE SplitLines(_)
SplitLines(s) ==
  LET n == IndexOf(s, <<"\n">>)
  IN IF n = 0 THEN <<s>>
     ELSE LET raw == SubSeq(s, 1, n - 1)
              line == IF raw # <<>> /\ raw[Len(raw)] = "\r"
                      THEN SubSeq(raw, 1, Len(raw) - 1) ELSE raw
          IN <<line>> \o SplitLines(SubSeq(s, n + 1, Len(s)))

(* l.split(",")[0] *)
FirstField(l) ==
  LET n == IndexOf(l, <<",">>) IN IF n = 0 THEN l ELSE SubSeq(l, 1, n - 1)

(* Array.prototype.filter *)
RECURSIVE SelectLines(_)
SelectLines(ls) ==
  IF ls = <<>> THEN <<>>
  ELSE IF Len(Head(ls)) > 0 /\ ~StartsWith(Head(ls), <<"#">>)
       THEN <<Head(ls)>> \o SelectLines(Tail(ls))
       ELSE SelectLines(Tail(ls))

(* Number to decimal text, as a template literal prints it *)
Digit(d) == <<"0", "1", "2", "3", "4", "5", "6", "7", "8", "9">>[d + 1]

RECURSIVE NatToStr(_)
NatToStr(n) == IF n < 10 THEN <<Digit(n)>> ELSE NatToStr(n \div 10) \o <<Digit(n % 10)>>

----------------------------------------------------------------------------
(* parseHostname (ping.js 41-43): the computation *)

(* The host of an authority: what precedes its first "/", "?", "#" or ":" *)
RECURSIVE HostOf(_)
HostOf(rest) ==
  IF rest = <<>> \/ Head(rest) \in {"/", "?", "#", ":"} THEN <<>>
  ELSE <<LowerChar(Head(rest))>> \o HostOf(Tail(rest))

(* new URL(u).hostname; "" stands for the TypeError new URL throws, which the
   caller turns into "" *)
UrlHostname(u) ==
  LET n == IndexOf(u, <<":", "/", "/">>)
  IN IF n <= 1 THEN <<>>
     ELSE HostOf(SubSeq(u, n + 3, Len(u)))

(* new URL(u).hostname.replace(/^www\./, "") *)
ParseHostnameOf(u) ==
  LET h == UrlHostname(u)
  IN IF StartsWith(h, <<"w", "w", "w", ".">>) THEN SubSeq(h, 5, Len(h)) ELSE h

----------------------------------------------------------------------------
(* readUrls (ping.js 46-55) *)

HeaderError == <<"The first line of urls.csv must contain a 'url' header.">>

readUrlsLines(csvText) ==
  LET split == SplitLines(csvText)
  IN SelectLines([i \in 1..Len(split) |-> Trim(split[i])])

(* A variant of readUrlsThrows without the check of the header *)
readUrlsNeverThrows(csvText) == FALSE

(* 52-53: there is a line, and the first one does not contain 'url' *)
readUrlsThrows(csvText) ==
  LET lines == readUrlsLines(csvText)
  IN lines # <<>> /\ ~Includes(ToLowerCase(lines[1]), <<"u", "r", "l">>)

(* A variant of readUrls without slice(1): the header is taken for a URL *)
readUrlsKeepsHeader(csvText) ==
  LET lines == readUrlsLines(csvText)
  IN [i \in 1..Len(lines) |-> Trim(FirstField(lines[i]))]

readUrls(csvText) ==
  LET lines == readUrlsLines(csvText)
  IN IF lines = <<>> THEN <<>>
     ELSE [i \in 1..(Len(lines) - 1) |-> Trim(FirstField(lines[i + 1]))]

----------------------------------------------------------------------------
(* isOk (ping.js 58-63) *)

statusOk(o) == o.status >= 200 /\ o.status < 400

domOk(o) == o.bodyLen > DOM_MIN_BODY /\ o.title # <<>> /\ Len(Trim(o.title)) > 0

(* A variant of hostOk that does not ask for a target hostname *)
hostOkAnyTarget(o) == o.finalHost # <<>> /\ EndsWith(o.finalHost, o.targetHost)

hostOk(o) == o.finalHost # <<>> /\ o.targetHost # <<>> /\ EndsWith(o.finalHost, o.targetHost)

(* A variant of isOk without its first operand, the status *)
isOkWithoutStatusRule(o) == (domOk(o) /\ hostOk(o)) \/ hostOk(o)

(* A variant of isOk that takes a real DOM for a success on its own *)
isOkByDomAlone(o) == statusOk(o) \/ domOk(o) \/ hostOk(o)

(* A variant of isOk without its last operand, the hostname alone *)
isOkWithoutHostRule(o) == statusOk(o) \/ (domOk(o) /\ hostOk(o))

isOk(o) == statusOk(o) \/ (domOk(o) /\ hostOk(o)) \/ hostOk(o)

----------------------------------------------------------------------------
(* randInt and backoffMs (ping.js 38-39).  Math.random() returns r / RandomDen
   for an integer r in 0..(RandomDen - 1): a number in [0, 1) *)

Randoms == 0..(RandomDen - 1)

(* Math.floor(Math.random() * width) *)
FloorScaled(r, width) == (r * width) \div RandomDen

(* A variant of randInt that scales the draw by max + 1 *)
randIntFullWidth(min, max, r) == min + FloorScaled(r, max + 1)

(* Math.floor(min + Math.random() * (max - min + 1)), min an integer *)
randInt(min, max, r) == min + FloorScaled(r, max - min + 1)

(* Math.pow(2, n), n a natural number *)
RECURSIVE Pow2(_)
Pow2(n) == IF n = 0 THEN 1 ELSE 2 * Pow2(n - 1)

(* A variant of backoffMs whose jitter is as wide as three base delays *)
backoffMsWideJitter(a, r) ==
  BACKOFF_BASE_MS * Pow2(a - 1) + FloorScaled(r, 3 * BACKOFF_BASE_MS)

(* 1000 * Math.pow(2, attempt - 1) + Math.floor(Math.random() * 500) *)
backoffMs(a, r) == BACKOFF_BASE_MS * Pow2(a - 1) + FloorScaled(r, BACKOFF_JITTER_MS)

----------------------------------------------------------------------------
(* The earlier variant (part_000): its settings and its isOk, 20 and 24-28.
   The markup is modelled by its length *)

STRICT_MAX_RETRIES == 2

STRICT_MIN_CONTENT == 2000

(* content && content.length > 2000 *)
bodyOk(contentLen) == contentLen # 0 /\ contentLen > STRICT_MIN_CONTENT

strictIsOk(st, contentLen) == (st >= 200 /\ st < 400) /\ bodyOk(contentLen)

----------------------------------------------------------------------------
(* The inputs of a run: urls.csv, the two environment variables, and what the
   browser answers to each navigation *)

CommentLine == <<"#", "c">>

HeaderLine == <<"U", "r", "l", ",", "n">>

RECURSIVE JoinLines(_)
JoinLines(ls) ==
  IF ls = <<>> THEN <<>>
  ELSE IF Len(ls) = 1 THEN Head(ls)
       ELSE Head(ls) \o <<"\r", "\n">> \o JoinLines(Tail(ls))

UrlLine == <<"h", "t", "t", "p", ":", "/", "/", "w", "w", "w", ".", "a", ".", "i", "o", "/", "s", ",", " ", "z">>

BadLine == <<"b", "a", "d">>

(* The data lines of urls.csv: up to MaxDataLines lines, URL lines but for the
   first line of a list of several lines *)
Bodies ==
  { [i \in 1..n |-> IF i = 1 /\ n > 1 THEN BadLine ELSE UrlLine] : n \in 0..MaxDataLines }

(* urls.csv: empty, a comment and a header followed by data lines, or data
   lines without a header *)
CsvTexts ==
  {<<>>}
    \cup {JoinLines(<<CommentLine, HeaderLine>> \o b) : b \in Bodies}
    \cup {JoinLines(b) : b \in {x \in Bodies : Len(x) = 1}}

(* process.env.X: unset, set to "", or set to a value *)
Unset == <<"undefined">>

Envs ==
  { [email |-> Unset, password |-> <<"x">>],
    [email |-> <<"x">>, password |-> <<>>],
    [email |-> <<"x">>, password |-> <<"x">>] }

(* process.env.X || "" *)
OrEmpty(v) == IF v = Unset \/ v = <<>> THEN <<>> ELSE v

TOKOPEDIA_EMAIL(env) == OrEmpty(env.email)

TOKOPEDIA_PASSWORD(env) == OrEmpty(env.password)

(* A variant of REQUIRE_LOGIN with || for && *)
RequireLoginEither(env) == TOKOPEDIA_EMAIL(env) # <<>> \/ TOKOPEDIA_PASSWORD(env) # <<>>

(* TOKOPEDIA_EMAIL && TOKOPEDIA_PASSWORD, as the condition of an if *)
REQUIRE_LOGIN(env) == TOKOPEDIA_EMAIL(env) # <<>> /\ TOKOPEDIA_PASSWORD(env) # <<>>

(* page.goto's response: none (null), or one with a status *)
NoResponse == -1

Responses == {NoResponse, 200, 503}

(* What a Target navigation lands on: page.url(), document.body.innerText.length
   and document.title *)
ShopUrl == <<"h", "t", "t", "p", ":", "/", "/", "a", ".", "i", "o", "/">>

ElsewhereUrl == <<"h", "t", "t", "p", ":", "/", "/", "b", ".", "i", "o", "/">>

Landings ==
  { [finalUrl |-> ShopUrl, bodyLen |-> 1201, title |-> <<"T">>],
    [finalUrl |-> ShopUrl, bodyLen |-> 0, title |-> <<>>],
    [finalUrl |-> ElsewhereUrl, bodyLen |-> 1201, title |-> <<" ">>] }

(* The message of the Error a navigation or an evaluation throws *)
FaultMessages == { <<"t", "i", "m", "e", "o", "u", "t">>, <<>> }

(* page.url() during the login sub-flow *)
LoginUrls ==
  { <<"/", "l", "o", "g", "i", "n">>,
    <<"/", "o", "t", "p">>,
    <<"/", "l", "o", "g", "i", "n", "/", "o", "t", "p">>,
    <<"/", "v", "e", "r", "i", "f", "i", "c", "a", "t", "i", "o", "n">>,
    <<"/", "h", "o", "m", "e">> }

(* The message of the Error a step of the login form-fill throws *)
LoginFaultMessages == { <<"s", "e", "l">> }

(* The draws of Math.random() before an inter-visit pause: the least one, one
   in the middle and the greatest one *)
PauseDraws == {0, RandomDen \div 2, RandomDen - 1}

----------------------------------------------------------------------------
(* parseHostname (ping.js 41-43), tabulated over the URLs of the inputs *)

InputUrls ==
  {l.finalUrl : l \in Landings}
    \cup UNION { {readUrls(c)[i] : i \in 1..Len(readUrls(c))} :
                   c \in {x \in CsvTexts : ~readUrlsThrows(x)} }

HostnameTable == [u \in InputUrls |-> ParseHostnameOf(u)]

(* readUrls (ping.js 46-55), tabulated over the texts of urls.csv: whether it
   throws, and what it returns when it does not *)
ReadUrlsTable ==
  [ t \in CsvTexts |->
      [ throws |-> readUrlsThrows(t),
        urls   |-> IF readUrlsThrows(t) THEN <<>> ELSE readUrls(t) ] ]

parseHostname(u) == IF u \in InputUrls THEN HostnameTable[u] ELSE ParseHostnameOf(u)

----------------------------------------------------------------------------
(* visitOnce (ping.js 77-95) on the browser's answer a *)

(* res?.status?.() ?? res?.status ?? 0 *)
ResStatus(res) == IF res = NoResponse THEN 0 ELSE res

visitOnce(url, a) ==
  [ status     |-> ResStatus(a.res),
    finalHost  |-> parseHostname(a.finalUrl),
    targetHost |-> parseHostname(url),
    bodyLen    |-> a.bodyLen,
    title      |-> a.title ]

(* What the browser can answer to one visitOnce: an observation, or a fault
   thrown by page.goto or page.evaluate *)
Answers ==
  { [kind |-> "response", res |-> r, finalUrl |-> d.finalUrl, bodyLen |-> d.bodyLen,
     title |-> d.title] : r \in Responses, d \in Landings }
    \cup { [kind |-> "fault", message |-> m] : m \in FaultMessages }

(* A variant of ErrText that reads e.message only *)
ErrTextMessageOnly(message) == message

(* e?.message || String(e), e an Error *)
ErrText(message) == IF message # <<>> THEN message ELSE <<"Error">>

(* The diagnostic of an unhealthy observation (ping.js 218) *)
UnhealthyMsg(st, probe) ==
  <<"Unhealthy: status=">> \o NatToStr(st) \o <<", host=">> \o probe.finalHost
    \o <<", body=">> \o NatToStr(probe.bodyLen) \o <<", title=", "\"">>
    \o Slice0(probe.title, TITLE_SLICE) \o <<"\"">>

(* nowIso(): the clock is not modelled *)
nowIso == <<"TS">>

----------------------------------------------------------------------------
(* The report writer (ping.js 240-259) *)

BoolStr(b) == IF b THEN <<"true">> ELSE <<"false">>

(* (r.error||"").replace(/"/g,'""') *)
RECURSIVE EscapeQuotes(_)
EscapeQuotes(e) ==
  IF e = <<>> THEN <<>>
  ELSE (IF Head(e) = "\"" THEN <<"\"", "\"">> ELSE <<Head(e)>>) \o EscapeQuotes(Tail(e))

CsvRow(r) ==
  r.timestamp \o <<",">> \o r.url \o <<",">> \o NatToStr(r.status) \o <<",">> \o BoolStr(r.ok)
    \o <<",">> \o NatToStr(r.attempts) \o <<",">> \o <<"\"">> \o EscapeQuotes(r.error) \o <<"\"">>

CsvHeader == <<"timestamp,url,status,ok,attempts,error">>

ReportCsvText(rs) == <<CsvHeader>> \o [i \in 1..Len(rs) |-> CsvRow(rs[i])]

(* results.filter(pred), pred given as the wanted value of r.ok *)
RECURSIVE FilterOk(_, _)
FilterOk(rs, want) ==
  IF rs = <<>> THEN <<>>
  ELSE (IF Head(rs).ok = want THEN <<Head(rs)>> ELSE <<>>) \o FilterOk(Tail(rs), want)

FailLine(r) == <<"- ">> \o r.url \o <<" (status ">> \o NatToStr(r.status) \o <<")">>

TotalLine(n) == <<"Total URLs: ">> \o NatToStr(n)

(* The lines of summary.txt after summary.trim() *)
SummaryText(rs) ==
  LET total   == Len(rs)
      success == Len(FilterOk(rs, TRUE))
      fail    == total - success
      failed  == FilterOk(rs, FALSE)
  IN << <<"Daily Browser Visit Summary">>,
        <<"Run time (UTC): ">> \o nowIso,
        TotalLine(total),
        <<"Successful: ">> \o NatToStr(success),
        <<"Unsuccessful: ">> \o NatToStr(fail) >>
       \o (IF fail > 0
           THEN << <<>>, <<"Failures:">> >> \o [i \in 1..Len(failed) |-> FailLine(failed[i])]
           ELSE <<>>)

NoUrlsSummary == << <<"No URLs found in urls.csv (after header).">> >>

LoginFailedSummary(message) ==
  << <<"Login failed: ">> \o message,
     <<"Cannot visit authenticated URLs without login.">> >>

CrashSummary(message) == << <<"Run crashed:">>, ErrText(message) >>

Absent == <<>>

----------------------------------------------------------------------------
(* The state of one run *)

VARIABLES
  csv,          \* the text of urls.csv
  env,          \* process.env: [email, password]
  pc,           \* where run() stands
  urls,         \* run: urls
  idx,          \* run: the position of `url` in urls (the for-of iterator)
  attempt,      \* run: attempt
  ok,           \* run: ok
  status,       \* run: status
  errorMsg,     \* run: errorMsg
  results,      \* run: results
  browser,      \* "none", "open" or "closed"
  pages,        \* the number of pages browser.newPage() has made
  page,         \* run: page (0 before newPage)
  authState,    \* the Authenticator's state
  currentUrl,   \* loginToTokopedia: currentUrl
  finalUrl,     \* loginToTokopedia: finalUrl
  pending,      \* the message of the Error in flight to a catch
  summary,      \* artifacts/summary.txt
  reportCsv,    \* artifacts/visit_log.csv
  reportJson,   \* artifacts/visit_log.json
  written,      \* the artifacts written so far
  navLog,       \* every page.goto so far: [kind, target, page, ok]
  authTrace,    \* the Authenticator states entered so far
  otpWaits,     \* the number of 60 s second-factor waits so far
  urlReads,     \* the number of page.url() calls of loginToTokopedia so far
  lastAnswer,   \* what the latest attempt of the current Target showed
  finals,       \* per VisitOutcome, what its last attempt showed
  crashed,      \* the top-level catch of run() has run
  lastProbe,    \* run: lastProbe
  timer,        \* the delay of the setTimeout that sleep() is waiting for (0: none)
  sleepLog,     \* every sleep of the loop so far: [kind, target, arg, navs]
  strictRun,    \* the locals of the loop of the earlier variant (part_000)
  limit         \* the attempt limit of the two loops run side by side

vars ==
  << csv, env, pc, urls, idx, attempt, ok, status, errorMsg, results, browser, pages, page,
     authState, currentUrl, finalUrl, pending, summary, reportCsv, reportJson, written,
     navLog, authTrace, otpWaits, urlReads, lastAnswer, finals, crashed, lastProbe, timer,
     sleepLog, strictRun, limit >>

NoAnswer == [kind |-> "none", message |-> <<>>]

(* lastProbe = null, ping.js 210 *)
NullProbe == [null |-> TRUE]

(* part_000 103-105: let attempt = 0; let ok = false; let status = 0 *)
StrictStart == [attempt |-> 0, ok |-> FALSE, status |-> 0]

(* What a run starts from, besides its inputs and the locals of its loop *)
RunFresh ==
  /\ status = 0
  /\ errorMsg = <<>>
  /\ results = <<>>
  /\ browser = "none"
  /\ pages = 0
  /\ page = 0
  /\ authState = "NotStarted"
  /\ currentUrl = <<>>
  /\ finalUrl = <<>>
  /\ pending = <<>>
  /\ summary = Absent
  /\ reportCsv = Absent
  /\ reportJson = Absent
  /\ written = {}
  /\ navLog = <<>>
  /\ authTrace = <<"NotStarted">>
  /\ otpWaits = 0
  /\ urlReads = 0
  /\ lastAnswer = NoAnswer
  /\ finals = <<>>
  /\ crashed = FALSE
  /\ sleepLog = <<>>

Init ==
  /\ csv \in CsvTexts
  /\ env \in Envs
  /\ pc = "start"
  /\ urls = <<>>
  /\ idx = 0
  /\ attempt = 0
  /\ ok = FALSE
  /\ lastProbe = NullProbe
  /\ timer = 0
  /\ strictRun = StrictStart
  /\ limit = MAX_RETRIES
  /\ RunFresh

loopVars ==
  << idx, attempt, ok, status, errorMsg, lastProbe, results, lastAnswer, finals, timer,
     sleepLog >>

loginVars == << authState, currentUrl, finalUrl, authTrace, otpWaits, urlReads >>

fileVars == << summary, reportCsv, reportJson, written >>

inputVars == << csv, env >>

(* What run() of ping.js never writes: the loop of the earlier variant *)
strictVars == << strictRun, limit >>

(* What the loop over the URLs leaves alone when it is run on its own *)
runVars ==
  << status, errorMsg, results, browser, pages, page, loginVars, pending, fileVars, navLog,
     lastAnswer, finals, crashed, sleepLog >>

----------------------------------------------------------------------------
(* run(), ping.js 166-175: read the URL list *)

ReadUrls ==
  /\ pc = "start"
  /\ IF ReadUrlsTable[csv].throws
     THEN /\ pending' = HeaderError
          /\ pc' = "fatal"
          /\ UNCHANGED << urls, summary, written >>
     ELSE /\ urls' = ReadUrlsTable[csv].urls
          /\ pending' = pending
          /\ IF Len(urls') = 0
             THEN /\ summary' = NoUrlsSummary
                  /\ written' = written \cup {"summary.txt"}
                  /\ pc' = "done"
             ELSE /\ UNCHANGED << summary, written >>
                  /\ pc' = "launch"
  /\ UNCHANGED << inputVars, strictVars, loopVars, loginVars, browser, pages, page, reportCsv,
                  reportJson,
                  navLog, crashed >>

(* run(), ping.js 178-193 and 204-210: launch the browser, make the page, and
   either enter the login sub-flow or start the loop over the URLs *)
Launch ==
  /\ pc = "launch"
  /\ browser' = "open"
  /\ pages' = pages + 1
  /\ page' = pages + 1
  /\ IF REQUIRE_LOGIN(env)
     THEN /\ pc' = "login_goto"
          /\ idx' = idx
     ELSE /\ pc' = "visit"
          /\ idx' = 1
  /\ UNCHANGED << inputVars, strictVars, urls, attempt, ok, status, errorMsg, results,
                  lastAnswer, finals, lastProbe, timer, sleepLog,
                  loginVars, pending, fileVars, navLog, crashed >>

----------------------------------------------------------------------------
(* loginToTokopedia (ping.js 97-163).  The Authenticator's states: FormLoaded
   once the login page has been navigated to (103), CredentialsSubmitted once
   the login button has been clicked (132), AwaitingSecondFactor during the
   60 s wait (145), LoggedIn at `return true` (157), Failed when the function
   throws (161). *)

OTP == <<"o", "t", "p">>

VERIFICATION == <<"v", "e", "r", "i", "f", "i", "c", "a", "t", "i", "o", "n">>

LOGIN == <<"l", "o", "g", "i", "n">>

StillOnLogin == <<"Login failed - still on login page">>

LoginNav == [kind |-> "login", target |-> 0, page |-> page, ok |-> FALSE]

Enter(st) ==
  /\ authState' = st
  /\ authTrace' = Append(authTrace, st)

(* catch (error) { throw new Error(`Login failed: ${error.message}`) }, 159-162 *)
LoginThrow(message) ==
  /\ Enter("Failed")
  /\ pending' = <<"Login failed: ">> \o message
  /\ pc' = "login_failed"

(* The outcome of a form-fill step: it returns, or it throws *)
StepOutcomes == {<<"returns">>} \cup LoginFaultMessages

(* 103-104: page.goto(login page) *)
LoginGoto ==
  /\ pc = "login_goto"
  /\ navLog' = Append(navLog, LoginNav)
  /\ \E o \in StepOutcomes :
       IF o = <<"returns">>
       THEN /\ Enter("FormLoaded")
            /\ pc' = "login_email"
            /\ pending' = pending
       ELSE LoginThrow(o)
  /\ UNCHANGED << inputVars, strictVars, urls, loopVars, browser, pages, page, currentUrl, finalUrl,
                  otpWaits, urlReads, fileVars, crashed >>

(* A form-fill step that only returns or throws *)
FormStep(here, next) ==
  /\ pc = here
  /\ \E o \in StepOutcomes :
       IF o = <<"returns">>
       THEN /\ pc' = next
            /\ UNCHANGED << authState, authTrace, pending >>
       ELSE LoginThrow(o)
  /\ UNCHANGED << inputVars, strictVars, urls, loopVars, browser, pages, page, currentUrl, finalUrl,
                  otpWaits, urlReads, fileVars, navLog, crashed >>

(* 108-113: wait for the identifier field and type into it *)
LoginEmail == FormStep("login_email", "login_next")

(* 116-123: find the next button; click it when there is one *)
LoginNext ==
  /\ pc = "login_next"
  /\ \E nextButton \in BOOLEAN, o \in StepOutcomes :
       IF nextButton /\ o # <<"returns">>
       THEN LoginThrow(o)
       ELSE /\ pc' = "login_password"
            /\ UNCHANGED << authState, authTrace, pending >>
  /\ UNCHANGED << inputVars, strictVars, urls, loopVars, browser, pages, page, currentUrl, finalUrl,
                  otpWaits, urlReads, fileVars, navLog, crashed >>

(* 126-128: wait for the passcode field and type into it *)
LoginPassword == FormStep("login_password", "login_submit")

(* A variant of LoginSubmit that ignores a fault of the click *)
LoginSubmitIgnoresFault ==
  /\ pc = "login_submit"
  /\ \E o \in StepOutcomes :
       IF o = <<"returns">>
       THEN Enter("CredentialsSubmitted")
       ELSE UNCHANGED << authState, authTrace >>
  /\ pc' = "login_otp"
  /\ UNCHANGED << inputVars, strictVars, urls, loopVars, browser, pages, page, currentUrl, finalUrl,
                  otpWaits, urlReads, pending, fileVars, navLog, crashed >>

(* 131-135: click the login button *)
LoginSubmit ==
  /\ pc = "login_submit"
  /\ \E o \in StepOutcomes :
       IF o = <<"returns">>
       THEN /\ Enter("CredentialsSubmitted")
            /\ pc' = "login_otp"
            /\ pending' = pending
       ELSE LoginThrow(o)
  /\ UNCHANGED << inputVars, strictVars, urls, loopVars, browser, pages, page, currentUrl, finalUrl,
                  otpWaits, urlReads, fileVars, navLog, crashed >>

(* A variant of SecondFactor that looks for 'otp' only *)
SecondFactorOtpOnly(u) == Includes(u, OTP)

(* currentUrl.includes('otp') || currentUrl.includes('verification'), 139 *)
SecondFactor(u) == Includes(u, OTP) \/ Includes(u, VERIFICATION)

(* finalUrl.includes('login'), 152 *)
OnLoginPage(u) == Includes(u, LOGIN)

(* 138-146: read the URL; on a second-factor page sleep 60 s *)
LoginCheckOtp ==
  /\ pc = "login_otp"
  /\ urlReads' = urlReads + 1
  /\ \E u \in LoginUrls :
       /\ currentUrl' = u
       /\ IF SecondFactor(u)
          THEN /\ Enter("AwaitingSecondFactor")
               /\ otpWaits' = otpWaits + 1
          ELSE UNCHANGED << authState, authTrace, otpWaits >>
  /\ pc' = "login_verify"
  /\ UNCHANGED << inputVars, strictVars, urls, loopVars, browser, pages, page, finalUrl, pending,
                  fileVars, navLog, crashed >>

(* 149-150: read the URL once more *)
LoginVerify ==
  /\ pc = "login_verify"
  /\ urlReads' = urlReads + 1
  /\ \E u \in LoginUrls : finalUrl' = u
  /\ pc' = "login_return"
  /\ UNCHANGED << inputVars, strictVars, urls, loopVars, browser, pages, page, authState, authTrace,
                  currentUrl, otpWaits, pending, fileVars, navLog, crashed >>

(* 152-157, then run() 196 and 208-210: throw when still on the login page,
   return true otherwise; the locals of loginToTokopedia end here *)
LoginReturn ==
  /\ pc = "login_return"
  /\ IF OnLoginPage(finalUrl)
     THEN /\ LoginThrow(StillOnLogin)
          /\ idx' = idx
     ELSE /\ Enter("LoggedIn")
          /\ pc' = "visit"
          /\ idx' = 1
          /\ pending' = pending
  /\ currentUrl' = <<>>
  /\ finalUrl' = <<>>
  /\ UNCHANGED << inputVars, strictVars, urls, attempt, ok, status, errorMsg, results,
                  lastAnswer, finals, lastProbe, timer, sleepLog,
                  browser, pages, page, otpWaits, urlReads, fileVars, navLog, crashed >>

(* A variant of LoginFailed without the return: the loop over the URLs starts *)
LoginFailedFallsThrough ==
  /\ pc = "login_failed"
  /\ summary' = LoginFailedSummary(pending)
  /\ written' = written \cup {"summary.txt"}
  /\ browser' = "closed"
  /\ pc' = "visit"
  /\ idx' = 1
  /\ UNCHANGED << inputVars, strictVars, urls, attempt, ok, status, errorMsg, results,
                  lastAnswer, finals, lastProbe, timer, sleepLog,
                  pages, page, loginVars, pending, reportCsv, reportJson, navLog, crashed >>

(* run(), ping.js 197-203: the login failed *)
LoginFailed ==
  /\ pc = "login_failed"
  /\ summary' = LoginFailedSummary(pending)
  /\ written' = written \cup {"summary.txt"}
  /\ browser' = "closed"
  /\ pc' = "done"
  /\ UNCHANGED << inputVars, strictVars, urls, loopVars, pages, page, loginVars, pending, reportCsv,
                  reportJson, navLog, crashed >>

----------------------------------------------------------------------------
(* run(), ping.js 209-235: the loop over the URLs *)

TargetNav(verdict) == [kind |-> "target", target |-> idx, page |-> page, ok |-> verdict]

(* A variant of RetryLoopContinues without the limit *)
RetryLoopWithoutLimit(a, o) == ~o

(* A variant of RetryLoopContinues that does not stop on success *)
RetryLoopIgnoresOk(a, o) == a < MAX_RETRIES

(* 212: while (attempt < MAX_RETRIES && !ok) *)
RetryLoopContinues(a, o) == a < MAX_RETRIES /\ ~o

(* 215-218: visitOnce returned an observation *)
Observe(a) ==
  LET probe == visitOnce(urls[idx], a)
      verdict == isOk(probe)
  IN /\ status' = probe.status
     /\ ok' = verdict
     /\ errorMsg' = IF ~verdict THEN UnhealthyMsg(probe.status, probe) ELSE errorMsg
     /\ lastAnswer' = [kind |-> IF verdict THEN "healthy" ELSE "unhealthy", message |-> <<>>]
     /\ navLog' = Append(navLog, TargetNav(verdict))
     /\ lastProbe' = probe
     /\ UNCHANGED << pc, pending >>

(* A variant of CatchFault without the try/catch: the fault leaves run() *)
FaultEscapes(message) ==
  /\ pending' = message
  /\ pc' = "fatal"
  /\ lastAnswer' = [kind |-> "fault", message |-> message]
  /\ navLog' = Append(navLog, TargetNav(FALSE))
  /\ UNCHANGED << status, ok, errorMsg, lastProbe >>

(* 219-221: visitOnce threw; catch (e) { errorMsg = e?.message || String(e) } *)
CatchFault(message) ==
  /\ errorMsg' = ErrText(message)
  /\ lastAnswer' = [kind |-> "fault", message |-> message]
  /\ navLog' = Append(navLog, TargetNav(FALSE))
  /\ UNCHANGED << status, ok, lastProbe, pc, pending >>

(* The backoff sleep that follows attempt a of the Target *)
Backoff(a) == [kind |-> "backoff", target |-> idx, arg |-> a, navs |-> Len(navLog) + 1]

(* A variant of BackoffFollows that sleeps after the last attempt as well *)
BackoffAfterLastAttempt(a, o) == ~o

(* 222: if (!ok && attempt < MAX_RETRIES) *)
BackoffFollows(a, o) == ~o /\ a < MAX_RETRIES

(* 212-223: one iteration of the retry loop: one visitOnce, its classification
   or its fault, and the backoff sleep when another attempt follows.  The delay
   of that sleep, backoffMs(attempt), is not kept *)
Attempt ==
  /\ pc = "visit"
  /\ RetryLoopContinues(attempt, ok)
  /\ attempt' = attempt + 1
  /\ \E a \in Answers :
       IF a.kind = "response" THEN Observe(a) ELSE CatchFault(a.message)
  /\ sleepLog' = IF BackoffFollows(attempt', ok')
                 THEN Append(sleepLog, Backoff(attempt'))
                 ELSE sleepLog
  /\ UNCHANGED << inputVars, strictVars, urls, idx, results, finals, timer, browser, pages,
                  page, loginVars, fileVars, crashed >>

VisitOutcome ==
  [ timestamp |-> nowIso,
    url       |-> urls[idx],
    status    |-> status,
    ok        |-> ok,
    attempts  |-> attempt,
    error     |-> IF ok THEN <<>> ELSE errorMsg ]

(* A variant of AfterOutcome that leaves the loop one URL early *)
AfterOutcomeOffByOne(i, n) == IF i + 1 < n THEN "visit" ELSE "close"

(* 209: for (const url of urls), after the i-th of n URLs *)
AfterOutcome(i, n) == IF i < n THEN "visit" ELSE "close"

(* 225-234: the retry loop is over; push the outcome and start the inter-visit
   pause, sleep(randInt(JITTER_MS[0], JITTER_MS[1])).  The locals of the
   iteration are not read again *)
PushOutcome ==
  /\ pc = "visit"
  /\ ~RetryLoopContinues(attempt, ok)
  /\ results' = Append(results, VisitOutcome)
  /\ finals' = Append(finals, lastAnswer)
  /\ attempt' = 0
  /\ ok' = FALSE
  /\ status' = 0
  /\ errorMsg' = <<>>
  /\ lastAnswer' = NoAnswer
  /\ lastProbe' = NullProbe
  /\ \E r \in PauseDraws : timer' = randInt(JITTER_MS[1], JITTER_MS[2], r)
  /\ pc' = "pause"
  /\ UNCHANGED << inputVars, strictVars, urls, idx, sleepLog, browser, pages, page, loginVars,
                  pending, fileVars, navLog, crashed >>

(* The inter-visit pause of the Target *)
Pause == [kind |-> "pause", target |-> idx, arg |-> 0, navs |-> Len(navLog)]

(* 234, then 209-210: the timer of the pause fires; the loop goes on to the
   next URL or ends *)
PauseElapsed ==
  /\ pc = "pause"
  /\ timer' = 0
  /\ sleepLog' = Append(sleepLog, Pause)
  /\ idx' = idx + 1
  /\ pc' = AfterOutcome(idx, Len(urls))
  /\ UNCHANGED << inputVars, strictVars, urls, attempt, ok, status, errorMsg, lastProbe,
                  results, lastAnswer, finals, browser, pages, page, loginVars, pending,
                  fileVars, navLog, crashed >>

(* The Error of a failed browser.close() or fs.writeFileSync() *)
IoFault == <<"EIO">>

(* Where 237-258 may throw: nowhere, at browser.close() (237), or at the write
   of visit_log.csv (244), of visit_log.json (245) or of summary.txt (258) *)
ReportFaults == {"none", "close", "csv", "json", "summary"}

(* 237-261: close the browser and write the reports; the first call that
   throws ends run() with its Error *)
CloseAndReport ==
  /\ pc = "close"
  /\ \E f \in ReportFaults :
       LET csvDone == f \notin {"close", "csv"}
           jsonDone == f \notin {"close", "csv", "json"}
           summaryDone == f = "none"
       IN /\ browser' = IF f = "close" THEN browser ELSE "closed"
          /\ reportCsv' = IF csvDone THEN ReportCsvText(results) ELSE reportCsv
          /\ reportJson' = IF jsonDone THEN results ELSE reportJson
          /\ summary' = IF summaryDone THEN SummaryText(results) ELSE summary
          /\ written' = written \cup (IF csvDone THEN {"visit_log.csv"} ELSE {})
                                 \cup (IF jsonDone THEN {"visit_log.json"} ELSE {})
                                 \cup (IF summaryDone THEN {"summary.txt"} ELSE {})
          /\ pending' = IF f = "none" THEN pending ELSE IoFault
          /\ pc' = IF f = "none" THEN "done" ELSE "fatal"
  /\ UNCHANGED << inputVars, strictVars, urls, loopVars, pages, page, loginVars, navLog, crashed >>

(* run().catch, ping.js 264-270 *)
CrashHandler ==
  /\ pc = "fatal"
  /\ summary' = CrashSummary(pending)
  /\ written' = written \cup {"summary.txt"}
  /\ crashed' = TRUE
  /\ pc' = "done"
  /\ UNCHANGED << inputVars, strictVars, urls, loopVars, browser, pages, page, loginVars, pending,
                  reportCsv, reportJson, navLog >>

Next ==
  \/ ReadUrls
  \/ Launch
  \/ LoginGoto
  \/ LoginEmail
  \/ LoginNext
  \/ LoginPassword
  \/ LoginSubmit
  \/ LoginCheckOtp
  \/ LoginVerify
  \/ LoginReturn
  \/ LoginFailed
  \/ Attempt
  \/ PushOutcome
  \/ PauseElapsed
  \/ CloseAndReport
  \/ CrashHandler

Spec == Init /\ [][Next]_vars

(* The run when every await of run() settles: every navigation, page
   evaluation, sleep, close and write eventually returns or throws, so a step
   that can be taken eventually is *)
FairSpec == Spec /\ WF_vars(Next)

----------------------------------------------------------------------------
(* isOk on its own: one call on every observation of a bounded set *)

Statuses == {0, 199, 200, 399, 400, 503}

Hosts ==
  { <<>>,
    <<"a", ".", "i", "o">>,
    <<"s", ".", "a", ".", "i", "o">>,
    <<"b", ".", "i", "o">> }

BodyLens == {0, DOM_MIN_BODY, DOM_MIN_BODY + 1}

Titles == { <<>>, <<" ">>, <<"T">> }

(* What visitOnce can return *)
Observations ==
  [status : Statuses, finalHost : Hosts, targetHost : Hosts, bodyLen : BodyLens,
   title : Titles]

(* No run is going on: no urls.csv, no credentials *)
NoRun ==
  /\ csv = <<>>
  /\ env = [email |-> Unset, password |-> Unset]
  /\ RunFresh

IsOkInit ==
  /\ pc = "isOk"
  /\ lastProbe \in Observations
  /\ ok = FALSE
  /\ urls = <<>>
  /\ idx = 0
  /\ attempt = 0
  /\ timer = 0
  /\ strictRun = StrictStart
  /\ limit = MAX_RETRIES
  /\ NoRun

(* ok = isOk(lastProbe), ping.js 217 *)
CallIsOk ==
  /\ pc = "isOk"
  /\ ok' = isOk(lastProbe)
  /\ pc' = "returned"
  /\ UNCHANGED << inputVars, strictVars, runVars, urls, idx, attempt, lastProbe, timer >>

IsOkNext == CallIsOk

IsOkSpec == IsOkInit /\ [][IsOkNext]_vars

----------------------------------------------------------------------------
(* backoffMs on its own: sleep(backoffMs(attempt)) for every attempt number up
   to MaxAttempt and a sample of the draws of Math.random() *)

(* Every 128th draw, and the greatest one *)
BackoffDraws == {r \in Randoms : r % 128 = 0 \/ r = RandomDen - 1}

BackoffInit ==
  /\ pc = "backoffMs"
  /\ attempt \in 1..MaxAttempt
  /\ timer = 0
  /\ lastProbe = NullProbe
  /\ ok = FALSE
  /\ urls = <<>>
  /\ idx = 0
  /\ strictRun = StrictStart
  /\ limit = MAX_RETRIES
  /\ NoRun

(* await sleep(backoffMs(attempt)), ping.js 222 *)
CallBackoffMs ==
  /\ pc = "backoffMs"
  /\ \E r \in BackoffDraws : timer' = backoffMs(attempt, r)
  /\ pc' = "sleeping"
  /\ UNCHANGED << inputVars, strictVars, runVars, urls, idx, attempt, ok, lastProbe >>

BackoffNext == CallBackoffMs

BackoffSpec == BackoffInit /\ [][BackoffNext]_vars

----------------------------------------------------------------------------
(* The retry loop of ping.js (212-223) and the one of the earlier variant
   (part_000 108-124) side by side, on one Target: both are given the same
   attempt limit, and each attempt of either loop gets the answer that the
   attempt of the same ordinal gets in the other *)

(* The lengths of the markup that page.content() returns *)
HtmlLens == {0, STRICT_MIN_CONTENT, STRICT_MIN_CONTENT + 1}

(* while (attempt < MAX_RETRIES && !ok), the same line in both files, with the
   limit given to the two loops *)
WhileContinues(a, o) == a < limit /\ ~o

(* part_000 109-118: one iteration of the loop of the earlier variant; a fault
   leaves status and ok as they are *)
StrictAttempt(a, contentLen) ==
  IF a.kind = "response"
  THEN [ attempt |-> strictRun.attempt + 1,
         status  |-> ResStatus(a.res),
         ok      |-> strictIsOk(ResStatus(a.res), contentLen) ]
  ELSE [strictRun EXCEPT !.attempt = @ + 1]

SideBySideInit ==
  /\ pc = "loops"
  /\ limit \in {STRICT_MAX_RETRIES, MAX_RETRIES}
  /\ urls \in { <<u>> : u \in InputUrls }
  /\ idx = 1
  /\ attempt = 0
  /\ ok = FALSE
  /\ lastProbe = NullProbe
  /\ timer = 0
  /\ strictRun = StrictStart
  /\ NoRun

(* The browser answers the next attempt: each loop that has not ended makes
   it *)
AttemptBoth ==
  /\ pc = "loops"
  /\ WhileContinues(attempt, ok) \/ WhileContinues(strictRun.attempt, strictRun.ok)
  /\ \E a \in Answers, contentLen \in HtmlLens :
       /\ IF WhileContinues(attempt, ok)
          THEN /\ attempt' = attempt + 1
               /\ IF a.kind = "response" THEN Observe(a) ELSE CatchFault(a.message)
          ELSE UNCHANGED << attempt, ok, status, errorMsg, lastProbe, lastAnswer, navLog, pc,
                            pending >>
       /\ strictRun' = IF WhileContinues(strictRun.attempt, strictRun.ok)
                       THEN StrictAttempt(a, contentLen)
                       ELSE strictRun
  /\ UNCHANGED << inputVars, limit, urls, idx, results, finals, timer, sleepLog, browser, pages,
                  page, loginVars, fileVars, crashed >>

SideBySideNext == AttemptBoth

SideBySideSpec == SideBySideInit /\ [][SideBySideNext]_vars

----------------------------------------------------------------------------
(* Properties of the retry loop *)

IsTargetNav(e, i) == e.kind = "target" /\ e.target = i

(* The navigations of the i-th Target, in order *)
TargetNavs(i) == SelectSeq(navLog, LAMBDA e : IsTargetNav(e, i))

(* C1: every VisitOutcome pushed by the retry loop has 1 <= attempts <=
   MAX_RETRIES, and its error string is empty if and only if ok is true,
   whatever the attempts observed (healthy, unhealthy or a fault). *)
C1_OutcomeInvariant ==
  \A i \in 1..Len(results) :
    /\ results[i].attempts >= 1
    /\ results[i].attempts <= MAX_RETRIES
    /\ (results[i].error = <<>>) <=> results[i].ok

(* An unsuccessful outcome whose last attempt threw an Error with an empty
   message, beside a successful one *)
C1_Witness ==
  /\ \E i \in 1..Len(results) :
       ~results[i].ok /\ finals[i].kind = "fault" /\ finals[i].message = <<>>
  /\ \E i \in 1..Len(results) : results[i].ok

(* C2: the attempts of a VisitOutcome is the number of navigations of its
   Target; a successful outcome's attempts is the ordinal of the first
   successful attempt; no navigation of a Target follows a successful attempt
   on it; an unsuccessful outcome has attempts = MAX_RETRIES. *)
C2_AttemptsCountNavigations ==
  /\ \A t \in 1..Len(urls) :
       LET navs == TargetNavs(t)
       IN \A k \in 1..(Len(navs) - 1) : ~navs[k].ok
  /\ \A i \in 1..Len(results) :
       LET navs == TargetNavs(i)
       IN /\ results[i].attempts = Len(navs)
          /\ results[i].ok <=> navs[Len(navs)].ok
          /\ ~results[i].ok => results[i].attempts = MAX_RETRIES

(* One Target succeeded at its third attempt, another one never did *)
C2_Witness ==
  /\ \E i \in 1..Len(results) : results[i].ok /\ results[i].attempts = 3
  /\ \E i \in 1..Len(results) : ~results[i].ok

(* C3, in every state: an Error reaches the top-level catch either before any
   Target has been navigated to (the header Error) or after the loop is over
   (a failed close or write), never from inside the loop; and once the loop is
   over every Target has been navigated to and has its outcome. *)
C3_State ==
  /\ (pc = "fatal" \/ crashed) =>
        \/ /\ \A k \in 1..Len(navLog) : navLog[k].kind # "target"
           /\ pending = HeaderError
        \/ /\ urls # <<>>
           /\ Len(results) = Len(urls)
           /\ pending = IoFault
  /\ (pc = "close" \/ (pc = "done" /\ results # <<>>)) =>
        /\ Len(results) = Len(urls)
        /\ \A t \in 1..Len(urls) : TargetNavs(t) # <<>>

(* C3, in every step: an attempt that throws leaves run() in the loop on the
   same Target; while attempts remain the next step is another attempt of that
   Target, which sets ok when its observation is healthy; and an ok Target is
   pushed with the attempts made so far. *)
C3_Step ==
  /\ (lastAnswer'.kind = "fault" /\ navLog' # navLog) =>
        pc' = "visit" /\ idx' = idx /\ pending' = pending /\ results' = results
  /\ (pc = "visit" /\ lastAnswer.kind = "fault" /\ attempt < MAX_RETRIES) =>
        /\ attempt' = attempt + 1
        /\ idx' = idx
        /\ navLog' = Append(navLog, navLog'[Len(navLog')])
        /\ IsTargetNav(navLog'[Len(navLog')], idx)
        /\ lastAnswer'.kind = "healthy" => ok'
  /\ (pc = "visit" /\ ok) =>
        /\ Len(results') = Len(results) + 1
        /\ results'[Len(results')].ok
        /\ results'[Len(results')].attempts = attempt

(* C3: a navigation fault is consumed inside the retry loop as a failed
   attempt: it never escapes to run(), the same Target is retried while
   attempts remain (a fault on attempt k < MAX_RETRIES followed by a healthy
   observation yields ok with attempts = k + 1), and every later Target is
   still visited and gets its own VisitOutcome. *)
C3_FaultsAreConsumed == []C3_State /\ [][C3_Step]_vars

(* The first Target failed on a fault; the current one threw "timeout" on its
   first attempt and was healthy on its second *)
C3_Witness ==
  /\ Len(results) >= 1
  /\ finals[1].kind = "fault"
  /\ pc = "visit"
  /\ attempt = 2
  /\ ok
  /\ errorMsg = <<"t", "i", "m", "e", "o", "u", "t">>

(* C4: for every VisitOutcome whose final attempt raised a navigation fault,
   status = 0 and error = that fault's message (when the Error carries one),
   whatever statuses earlier attempts of the same Target observed. *)
C4_FaultForcesStatusZero ==
  \A i \in 1..Len(results) :
    finals[i].kind = "fault" =>
      /\ results[i].status = 0
      /\ finals[i].message # <<>> => results[i].error = finals[i].message

----------------------------------------------------------------------------
(* Properties of run() *)

(* The second field of a row of visit_log.csv *)
CsvUrlField(row) == FirstField(SubSeq(row, IndexOf(row, <<",">>) + 1, Len(row)))

LoginConfigured == env.email \notin {Unset, <<>>} /\ env.password \notin {Unset, <<>>}

(* The Targets of every urls.csv: what readUrls returns, none when it throws *)
TargetsOf == [t \in CsvTexts |-> IF readUrlsThrows(t) THEN <<>> ELSE readUrls(t)]

(* C5: when the URL list is non-empty and authentication is not configured or
   ends in LoggedIn, the run collects exactly one VisitOutcome per Target in
   source order, and the RunReport it writes (when neither the close of the
   browser nor a write throws) has as many outcomes as readUrls returned URLs,
   the i-th one for the i-th URL, in visit_log.json and in visit_log.csv
   alike. *)
C5_OneOutcomePerTarget ==
  (pc = "done" /\ (~LoginConfigured \/ authState = "LoggedIn")) =>
    LET targets == TargetsOf[csv]
    IN targets # <<>> =>
         /\ Len(results) = Len(targets)
         /\ \A i \in 1..Len(targets) : results[i].url = targets[i]
         /\ ~crashed =>
              /\ {"visit_log.json", "visit_log.csv"} \subseteq written
              /\ Len(reportJson) = Len(targets)
              /\ Len(reportCsv) = Len(targets) + 1
              /\ \A i \in 1..Len(targets) :
                   /\ reportJson[i].url = targets[i]
                   /\ CsvUrlField(reportCsv[i + 1]) = targets[i]

(* A finished run over two different URLs, the first one failed *)
C5_Witness ==
  /\ pc = "done"
  /\ Len(reportJson) = 2
  /\ reportJson[1].url # reportJson[2].url
  /\ ~reportJson[1].ok
  /\ authState = "LoggedIn"

(* C6: if loginToTokopedia throws, no Target is navigated to and no
   VisitOutcome is produced, visit_log.csv and visit_log.json are not written,
   the login-failure summary is written, the browser is closed, and the
   top-level catch does not run. *)
C6_LoginFailureStopsRun ==
  /\ authState = "Failed" =>
       /\ \A k \in 1..Len(navLog) : navLog[k].kind # "target"
       /\ results = <<>>
       /\ written \cap {"visit_log.csv", "visit_log.json"} = {}
       /\ pc \in {"login_failed", "done"}
       /\ ~crashed
  /\ (authState = "Failed" /\ pc = "done") =>
       /\ "summary.txt" \in written
       /\ summary[1][1] = "Login failed: "
       /\ summary[2] = <<"Cannot visit authenticated URLs without login.">>
       /\ browser = "closed"

(* A finished run whose login failed after the credentials were submitted *)
C6_Witness ==
  /\ pc = "done"
  /\ authState = "Failed"
  /\ authTrace[Len(authTrace) - 1] = "AwaitingSecondFactor"

----------------------------------------------------------------------------
(* Properties of the login sub-flow *)

(* C7, in every state: at most one second-factor wait, and a verdict reached
   after the submission has read the URL exactly twice. *)
C7_State ==
  /\ otpWaits <= 1
  /\ (authState = "AwaitingSecondFactor") => otpWaits = 1
  /\ (/\ authState \in {"LoggedIn", "Failed"}
      /\ \E k \in 1..Len(authTrace) : authTrace[k] = "CredentialsSubmitted") =>
       urlReads = 2

(* C7, in every step: the step after the submission waits if and only if the
   URL it reads contains 'otp' or 'verification'; the next one only reads the
   URL; the last one fails if that URL contains 'login' and succeeds
   otherwise. *)
C7_Step ==
  /\ pc = "login_otp" =>
       /\ (authState' = "AwaitingSecondFactor")
            <=> (Includes(currentUrl', OTP) \/ Includes(currentUrl', VERIFICATION))
       /\ otpWaits' = otpWaits + (IF authState' = "AwaitingSecondFactor" THEN 1 ELSE 0)
       /\ pc' = "login_verify"
  /\ pc = "login_verify" =>
       /\ authState' = authState
       /\ otpWaits' = otpWaits
       /\ pc' = "login_return"
  /\ pc = "login_return" =>
       authState' = (IF Includes(finalUrl, LOGIN) THEN "Failed" ELSE "LoggedIn")

(* C7: after the login form is submitted the verdict depends only on the URLs
   read: AwaitingSecondFactor (one fixed wait) if and only if the
   post-submission URL contains 'otp' or 'verification'; then the URL is read
   exactly once more, and the flow ends in Failed if it contains 'login' and in
   LoggedIn otherwise. *)
C7_VerdictFromUrls == []C7_State /\ [][C7_Step]_vars

(* Logged in after a second-factor wait on a 'verification' URL *)
C7_Witness ==
  /\ authState = "LoggedIn"
  /\ otpWaits = 1
  /\ pc = "visit"

(* C8 as stated: the states are entered in the order NotStarted, FormLoaded,
   CredentialsSubmitted, then AwaitingSecondFactor, LoggedIn or Failed, and
   none of these three is reached before CredentialsSubmitted. *)
C8_OutcomesOnlyAfterSubmission ==
  /\ authTrace[1] = "NotStarted"
  /\ \A k \in 2..Len(authTrace) :
       /\ authTrace[k] # "NotStarted"
       /\ authTrace[k] = "FormLoaded" => k = 2
       /\ authTrace[k] = "CredentialsSubmitted" => k = 3 /\ authTrace[2] = "FormLoaded"
       /\ authTrace[k] \in {"AwaitingSecondFactor", "LoggedIn", "Failed"} =>
            k >= 4 /\ authTrace[3] = "CredentialsSubmitted"

(* C8 as amended: the states are entered in the order NotStarted, FormLoaded,
   CredentialsSubmitted, then AwaitingSecondFactor, LoggedIn or Failed;
   AwaitingSecondFactor and LoggedIn are reached only after
   CredentialsSubmitted, AwaitingSecondFactor is followed by LoggedIn or
   Failed, and Failed is also entered from NotStarted and from FormLoaded, when
   a step of the form-fill throws. *)
C8_LoginStateOrder ==
  /\ authTrace[1] = "NotStarted"
  /\ authState = authTrace[Len(authTrace)]
  /\ \A k \in 2..Len(authTrace) :
       /\ authTrace[k] # "NotStarted"
       /\ authTrace[k] = "FormLoaded" => k = 2
       /\ authTrace[k] = "CredentialsSubmitted" => k = 3 /\ authTrace[2] = "FormLoaded"
       /\ authTrace[k] = "AwaitingSecondFactor" => k = 4 /\ authTrace[3] = "CredentialsSubmitted"
       /\ authTrace[k] = "LoggedIn" =>
            k \in {4, 5} /\ authTrace[3] = "CredentialsSubmitted" /\ k = Len(authTrace)
       /\ authTrace[k] = "Failed" => k = Len(authTrace)
       /\ k = 5 => authTrace[4] = "AwaitingSecondFactor"

(* Failed entered from FormLoaded: a form-fill step threw *)
C8_Witness == authTrace = <<"NotStarted", "FormLoaded", "Failed">>

(* C9: the login sub-flow is entered if and only if both secrets are present
   and non-empty; when it is entered, the login navigation and the LoggedIn
   verdict precede the first Target navigation, and every navigation of the
   run uses the one page that run() made. *)
C9_LoginBeforeVisits ==
  /\ (authState # "NotStarted" \/ \E k \in 1..Len(navLog) : navLog[k].kind = "login")
       => LoginConfigured
  /\ (LoginConfigured /\ browser # "none" /\ pc # "login_goto")
       => (navLog # <<>> /\ navLog[1].kind = "login")
  /\ \A k \in 1..Len(navLog) : navLog[k].kind = "login" => k = 1
  /\ (LoginConfigured /\ \E k \in 1..Len(navLog) : navLog[k].kind = "target")
       => authState = "LoggedIn"
  /\ pages <= 1
  /\ \A k \in 1..Len(navLog) : navLog[k].page = page /\ page = 1

(* A Target navigation after the login navigation *)
C9_Witness ==
  /\ Len(navLog) >= 2
  /\ navLog[1].kind = "login"
  /\ navLog[2].kind = "target"

----------------------------------------------------------------------------
(* Properties of the empty URL list *)

(* urls.csv holds a header line and no data line *)
HeaderOnly(text) ==
  /\ Len(readUrlsLines(text)) = 1
  /\ Includes(ToLowerCase(readUrlsLines(text)[1]), <<"u", "r", "l">>)

(* C10 as stated: for a URL source with only a header line the run produces
   a RunReport of length 0 and a summary with the line "Total URLs: 0". *)
C10_SummaryStatesTotalZero ==
  (pc = "done" /\ HeaderOnly(csv)) =>
    /\ Len(results) = 0
    /\ \E k \in 1..Len(summary) : summary[k] = <<"Total URLs: ", "0">>

(* C10 as amended: for a URL source with only a header line the run launches
   no browser, produces no VisitOutcome, writes neither visit_log.csv nor
   visit_log.json, and writes a summary that is the one line "No URLs found in
   urls.csv (after header)." *)
C10_HeaderOnlySummary ==
  (pc = "done" /\ HeaderOnly(csv)) =>
    /\ results = <<>>
    /\ navLog = <<>>
    /\ browser = "none"
    /\ written = {"summary.txt"}
    /\ summary = << <<"No URLs found in urls.csv (after header).">> >>

(* A finished run on a header-only urls.csv *)
C10_Witness == pc = "done" /\ HeaderOnly(csv)

----------------------------------------------------------------------------
(* Properties of a fatal fault *)

(* C11: when the top-level catch runs after one or more VisitOutcomes have
   been collected (the close of the browser or a report write threw), the
   VisitOutcomes collected so far are persisted, in visit_log.json or in
   visit_log.csv, and summary.txt holds the crash diagnostic. *)
C11_CrashPersistsOutcomes ==
  (crashed /\ results # <<>>) =>
    /\ summary = CrashSummary(pending)
    /\ \/ "visit_log.json" \in written /\ reportJson = results
       \/ "visit_log.csv" \in written /\ reportCsv = ReportCsvText(results)

----------------------------------------------------------------------------
(* Properties of isOk *)

(* finalHost ends with targetHost, and targetHost is not empty *)
SuffixMatches(o) ==
  /\ o.targetHost # <<>>
  /\ Len(o.finalHost) >= Len(o.targetHost)
  /\ \A k \in 1..Len(o.targetHost) :
       o.finalHost[Len(o.finalHost) - Len(o.targetHost) + k] = o.targetHost[k]

(* C12: for every observation isOk returns true if and only if (a) 200 <=
   status < 400, or (b) bodyLen > 1200 and the title is not empty and
   finalHost ends with a non-empty targetHost, or (c) finalHost is not empty and
   ends with a non-empty targetHost; in particular it is true whenever (a)
   holds, whatever the other fields, and whenever (c) holds, whatever the
   status. *)
C12_IsOkRules ==
  pc = "returned" =>
    LET o == lastProbe
        a == 200 <= o.status /\ o.status < 400
        b == o.bodyLen > 1200 /\ o.title # <<>> /\ SuffixMatches(o)
        c == o.finalHost # <<>> /\ SuffixMatches(o)
    IN /\ ok <=> (a \/ b \/ c)
       /\ a => ok
       /\ c => ok

(* isOk returned true on status 503 for a final hostname that is not the
   target's but ends with it, with an empty page *)
C12_Witness ==
  /\ pc = "returned"
  /\ ok
  /\ lastProbe.status = 503
  /\ lastProbe.bodyLen = 0
  /\ lastProbe.finalHost = <<"s", ".", "a", ".", "i", "o">>
  /\ lastProbe.targetHost = <<"a", ".", "i", "o">>

(* C13: for a Target whose URL parseHostname turns into the empty string, the
   observation has an empty targetHost and ok is true if and only if 200 <=
   status < 400, so status 0 is never ok; and the VisitOutcome of such a Target
   is ok if and only if its status is in [200, 400), and when it is not ok it
   was given MAX_RETRIES attempts. *)
C13_UnparsableTarget ==
  /\ (pc = "visit" /\ lastProbe # NullProbe /\ parseHostname(urls[idx]) = <<>>) =>
       /\ lastProbe.targetHost = <<>>
       /\ ok <=> (200 <= lastProbe.status /\ lastProbe.status < 400)
       /\ lastProbe.status = 0 => ~ok
  /\ \A i \in 1..Len(results) :
       parseHostname(results[i].url) = <<>> =>
         /\ results[i].ok <=> (200 <= results[i].status /\ results[i].status < 400)
         /\ ~results[i].ok => results[i].attempts = MAX_RETRIES

(* The Target "bad" was not ok: its last attempt got no response (status 0) on
   a page of the shop's host with a body and a title; and the Target after it
   is being observed *)
C13_Witness ==
  /\ Len(results) = 1
  /\ parseHostname(results[1].url) = <<>>
  /\ ~results[1].ok
  /\ results[1].status = 0
  /\ results[1].error =
       UnhealthyMsg(0, [finalHost |-> <<"a", ".", "i", "o">>, bodyLen |-> 1201, title |-> <<"T">>])
  /\ pc = "visit"
  /\ lastProbe # NullProbe

(* statusOk or hostOk, in the claim's words *)
StatusOrHost(o) ==
  (200 <= o.status /\ o.status < 400) \/ (o.finalHost # <<>> /\ SuffixMatches(o))

(* C18, in every step: the verdict of a step that observes a page is statusOk
   or hostOk of the observation, and it is the verdict of isOk on every
   observation with the same status, finalHost and targetHost and any other
   bodyLen and title; and after an observation the loop makes another attempt
   if and only if statusOk or hostOk is false and attempts remain. *)
C18_Step ==
  /\ (navLog' # navLog /\ lastAnswer'.kind \in {"healthy", "unhealthy"}) =>
       /\ ok' = StatusOrHost(lastProbe')
       /\ \A b \in BodyLens, t \in Titles :
            isOk([lastProbe' EXCEPT !.bodyLen = b, !.title = t]) = ok'
  /\ (pc = "visit" /\ lastAnswer.kind \in {"healthy", "unhealthy"}) =>
       (navLog' # navLog) <=> (~StatusOrHost(lastProbe) /\ attempt < MAX_RETRIES)

(* C18: the verdict of isOk does not depend on bodyLen and title: isOk is
   statusOk or hostOk, and the number of attempts the retry loop makes depends
   on the observations through status, finalHost and targetHost only. *)
C18_VerdictIgnoresDom == [][C18_Step]_vars

(* A page without body and title, answered with status 503 on the Target's
   host, was ok; the Target before was not, with a body of 1201 characters *)
C18_Witness ==
  /\ pc = "visit"
  /\ ok
  /\ lastProbe # NullProbe
  /\ lastProbe.status = 503
  /\ lastProbe.bodyLen = 0
  /\ lastProbe.title = <<>>
  /\ Len(results) = 1
  /\ finals[1].kind = "unhealthy"

----------------------------------------------------------------------------
(* Properties of the header check *)

(* The lines of the text that are neither blank nor comments *)
ContentLines(text) ==
  SelectSeq(SplitLines(text), LAMBDA l : Trim(l) # <<>> /\ ~StartsWith(Trim(l), <<"#">>))

(* The texts of urls.csv whose first content line does not contain 'url',
   whatever the case of its letters *)
HeaderlessTexts ==
  { t \in CsvTexts :
      /\ ContentLines(t) # <<>>
      /\ LET first == ToLowerCase(ContentLines(t)[1])
         IN \A k \in 1..(Len(first) - 2) : SubSeq(first, k, k + 2) # <<"u", "r", "l">> }

(* C14: when the first non-empty, non-comment line of urls.csv does not
   contain 'url', readUrls throws and the run fails fast: no browser is
   launched, no page is made, no login and no Target navigation is attempted,
   nothing is retried, no sleep is taken, neither visit_log.csv nor
   visit_log.json is written, and the run ends in the top-level catch, whose
   summary.txt, "Run crashed:" and the message of the Error, is the only
   artifact. *)
C14_HeaderErrorFailsFast ==
  csv \in HeaderlessTexts =>
    /\ pc \in {"start", "fatal", "done"}
    /\ browser = "none"
    /\ pages = 0
    /\ navLog = <<>>
    /\ authTrace = <<"NotStarted">>
    /\ urls = <<>>
    /\ attempt = 0
    /\ results = <<>>
    /\ sleepLog = <<>>
    /\ written \subseteq {"summary.txt"}
    /\ pc = "start" => written = {} /\ ~crashed
    /\ pc = "fatal" =>
         /\ written = {}
         /\ pending = <<"The first line of urls.csv must contain a 'url' header.">>
    /\ pc = "done" =>
         /\ crashed
         /\ written = {"summary.txt"}
         /\ summary = << <<"Run crashed:">>,
                        <<"The first line of urls.csv must contain a 'url' header.">> >>

(* A run on a urls.csv without a header has ended *)
C14_Witness == csv \in HeaderlessTexts /\ pc = "done"

----------------------------------------------------------------------------
(* Properties of the sleeps *)

(* The backoff sleeps of the t-th Target, in order *)
TargetBackoffs(t) == SelectSeq(sleepLog, LAMBDA e : e.kind = "backoff" /\ e.target = t)

(* C15: within the retry loop of a Target, a backoff sleep backoffMs(k) follows
   attempt k if and only if attempt k was not ok (an unhealthy observation or a
   fault) and k < MAX_RETRIES; the j-th backoff of the Target has argument j
   and is taken right after the Target's j-th navigation; and a VisitOutcome
   with attempts = n was preceded by exactly n - 1 backoffs of its Target. *)
C15_BackoffBetweenAttempts ==
  \A t \in 1..Len(urls) :
    LET navs == TargetNavs(t)
        offs == TargetBackoffs(t)
    IN /\ \A k \in 1..Len(navs) :
            (\E j \in 1..Len(offs) : offs[j].arg = k) <=> (~navs[k].ok /\ k < MAX_RETRIES)
       /\ \A j \in 1..Len(offs) :
            /\ offs[j].arg = j
            /\ offs[j].navs \in 1..Len(navLog)
            /\ IsTargetNav(navLog[offs[j].navs], t)
            /\ Len(SelectSeq(SubSeq(navLog, 1, offs[j].navs), LAMBDA e : IsTargetNav(e, t))) = j
       /\ t <= Len(results) => Len(offs) = results[t].attempts - 1

(* One Target was ok at its third attempt, after two backoffs; another one
   was never ok, after three; the last attempt of the latter threw *)
C15_Witness ==
  /\ Len(results) = 2
  /\ results[1].ok
  /\ results[1].attempts = 3
  /\ Len(TargetBackoffs(1)) = 2
  /\ ~results[2].ok
  /\ finals[2].kind = "fault"
  /\ Len(TargetBackoffs(2)) = 3

(* C16: for every attempt number a and every draw of Math.random(),
   backoffMs(a) >= 1000 * 2^(a-1) and backoffMs(a) < 1000 * 2^(a-1) + 500, and
   every value backoffMs(a + 1) can take is greater than it. *)
C16_BackoffGrows ==
  pc = "sleeping" =>
    /\ timer >= 1000 * 2^(attempt - 1)
    /\ timer < 1000 * 2^(attempt - 1) + 500
    /\ \A r \in Randoms : backoffMs(attempt + 1, r) > timer

(* The longest backoff after the third attempt: 4000 ms and a jitter of 499 *)
C16_Witness == pc = "sleeping" /\ attempt = 3 /\ timer = 4499

(* The inter-visit pauses that have elapsed *)
PausesElapsed == SelectSeq(sleepLog, LAMBDA e : e.kind = "pause")

(* C17, in every state: a timer is pending only during the inter-visit pause,
   its delay is between 1200 and 4000 ms, and the pause it times is the one of
   the Target whose VisitOutcome was recorded last; the i-th pause elapsed is
   the one of the i-th Target, it comes after every navigation of that Target
   and before every navigation of the next one. *)
C17_State ==
  /\ pc # "pause" => timer = 0
  /\ pc = "pause" =>
       /\ timer >= 1200
       /\ timer <= 4000
       /\ Len(results) = idx
       /\ Len(PausesElapsed) = idx - 1
  /\ pc \in {"visit", "close"} => Len(PausesElapsed) = Len(results)
  /\ \A i \in 1..Len(PausesElapsed) :
       /\ PausesElapsed[i].target = i
       /\ \A k \in 1..Len(navLog) :
            /\ IsTargetNav(navLog[k], i) => k <= PausesElapsed[i].navs
            /\ IsTargetNav(navLog[k], i + 1) => k > PausesElapsed[i].navs

(* C17, in every step: the pause starts in the step that records the
   VisitOutcome, ok or not; the step that follows it does nothing but let the
   pause elapse and move to the next Target or to the close of the browser; a
   Target is navigated to, and the browser is closed at the end of the loop,
   only when every VisitOutcome recorded has had its pause. *)
C17_Step ==
  /\ Len(results') > Len(results) =>
       /\ pc = "visit"
       /\ pc' = "pause"
       /\ Len(results') = Len(results) + 1
       /\ timer' >= 1200
       /\ timer' <= 4000
  /\ pc = "pause" =>
       /\ pc' = (IF idx < Len(urls) THEN "visit" ELSE "close")
       /\ idx' = idx + 1
       /\ Len(PausesElapsed') = Len(PausesElapsed) + 1
       /\ navLog' = navLog
       /\ results' = results
       /\ browser' = browser
  /\ (navLog' # navLog /\ navLog'[Len(navLog')].kind = "target") =>
       Len(PausesElapsed) = Len(results) /\ navLog'[Len(navLog')].target = Len(results) + 1
  /\ (pc = "close" /\ browser' = "closed") => Len(PausesElapsed) = Len(urls)

(* C17: after the retry loop of every Target, ok or not and the last one
   included, exactly one inter-visit pause of 1200 to 4000 ms elapses after the
   Target's VisitOutcome is recorded and before the first navigation of the
   next Target, or before the browser is closed; no navigation of Target i + 1
   starts before the outcome of Target i is recorded and its pause has
   elapsed. *)
C17_OnePausePerTarget == []C17_State /\ [][C17_Step]_vars

(* The longest pause, after the last of two Targets, which was not ok *)
C17_Witness ==
  /\ pc = "pause"
  /\ timer = 4000
  /\ idx = 2
  /\ Len(urls) = 2
  /\ results[1].ok
  /\ ~results[2].ok

----------------------------------------------------------------------------
(* Properties of the two classifiers *)

(* C19: with the same answers and the same attempt limit, the loop of ping.js
   has never made more attempts than the loop of the earlier variant, and it is
   ok whenever that one is; when both loops have just classified the same
   answer and the strict rule (status in [200, 400) and markup longer than
   2000) says ok, the permissive rule says ok on an observation with the same
   status. *)
C19_PermissiveNoWorse ==
  pc = "loops" =>
    /\ attempt <= strictRun.attempt
    /\ strictRun.attempt <= limit
    /\ strictRun.ok => ok
    /\ (strictRun.ok /\ attempt = strictRun.attempt) =>
         /\ lastAnswer.kind = "healthy"
         /\ lastProbe.status = strictRun.status
         /\ 200 <= lastProbe.status /\ lastProbe.status < 400

(* With a limit of 4 the earlier variant was never ok, on answers that the
   loop of ping.js took for ok at once *)
C19_Witness ==
  /\ pc = "loops"
  /\ limit = 4
  /\ strictRun.attempt = 4
  /\ ~strictRun.ok
  /\ strictRun.status = 200
  /\ ok
  /\ attempt = 1

----------------------------------------------------------------------------
(* Termination *)

(* The navigations of Targets so far *)
AllTargetNavs == SelectSeq(navLog, LAMBDA e : e.kind = "target")

(* C20, in every state: at most MAX_RETRIES attempts per Target and at most
   (number of Targets) x MAX_RETRIES navigations of Targets in the run. *)
C20_Bounded ==
  /\ attempt <= MAX_RETRIES
  /\ \A t \in 1..Len(urls) : Len(TargetNavs(t)) <= MAX_RETRIES
  /\ \A k \in 1..Len(navLog) : navLog[k].kind = "target" => navLog[k].target \in 1..Len(urls)
  /\ Len(AllTargetNavs) <= Len(urls) * MAX_RETRIES

(* The terminal states of a run: the summary of the empty list, the summary of
   the failed login, the full report, or the crash summary *)
C20_Terminal ==
  /\ pc = "done"
  /\ "summary.txt" \in written
  /\ \/ /\ summary = << <<"No URLs found in urls.csv (after header).">> >>
        /\ urls = <<>>
        /\ ~crashed
     \/ /\ summary[1][1] = "Login failed: "
        /\ authState = "Failed"
        /\ ~crashed
     \/ /\ summary[1] = <<"Daily Browser Visit Summary">>
        /\ {"visit_log.csv", "visit_log.json"} \subseteq written
        /\ Len(reportJson) = Len(urls)
        /\ ~crashed
     \/ /\ summary[1] = <<"Run crashed:">>
        /\ crashed

(* C20: when every navigation, page evaluation and sleep eventually returns
   or throws, every run terminates, whatever the answers to its attempts: each
   Target's loop makes at most MAX_RETRIES attempts, the run makes at most
   (number of Targets) x MAX_RETRIES navigations of Targets, and the run
   reaches one of its terminal states and stays there. *)
C20_RunTerminates == []C20_Bounded /\ <>[]C20_Terminal

(* Two Targets, MAX_RETRIES attempts each, and the full report written *)
C20_Witness ==
  /\ pc = "done"
  /\ Len(urls) = 2
  /\ Len(AllTargetNavs) = 2 * MAX_RETRIES
  /\ "visit_log.json" \in written
  /\ ~crashed

====
